---- MODULE Spec2Model ----
(***************************************************************************)
(* Model of the FIG-Loneliness preprocessing pipeline                      *)
(* (src/src/preprocessing.py, driven by src/main.py):                      *)
(*   load -> apply_preprocessing (map(process), remove_columns)            *)
(*        -> validate_dataset.                                             *)
(* Strings are sequences of one-character strings; the value None is the   *)
(* one-element sequence <<"None">>, which is no string over the alphabet.   *)
(***************************************************************************)
EXTENDS Naturals, Sequences, FiniteSets, TLC

VARIABLES
    text,               \* normaliser harness: the argument of basic_text_normalisation
    out1,               \* normaliser harness: result of the first application
    out2,               \* normaliser harness: result of the second application
    npc,                \* normaliser harness: "input" | "once" | "twice" | "off"
    dataset,            \* main: the loaded DatasetDict (split name -> sequence of examples)
    mapped,             \* apply_preprocessing: the examples dataset.map has produced so far
    processed_dataset,  \* main: <<>> until apply_preprocessing returns, then <<DatasetDict>>
    num_samples,        \* validate_dataset: num_samples_to_print
    report,             \* validate_dataset: what has been printed, one entry per split started
    pc                  \* main: position in the pipeline

vars == <<text, out1, out2, npc, dataset, mapped, processed_dataset, num_samples, report, pc>>

-----------------------------------------------------------------------------
(* Bounds *)

MaxLen == 5         \* longest input string of the normaliser harness
MaxRecords == 2     \* most records in the whole loaded dataset
MaxSamples == 2     \* largest num_samples_to_print

-----------------------------------------------------------------------------
(* Characters and strings *)

Tab == "\t"
Whitespace == {" ", Tab}
Alphabet == {"h", "t", "p", "w", "W", " ", Tab}

None == <<"None">>

HTTP == <<"h", "t", "t", "p">>
WWW == <<"w", "w", "w">>
URL_TOKEN == <<"<", "U", "R", "L", ">">>

Min(a, b) == IF a <= b THEN a ELSE b

IsStr(t) == t # None

IsSpace(c) == c \in Whitespace

\* str.lower(), on the characters that occur in inputs and in the placeholder
LowerChar(c) ==
    CASE c = "W" -> "w"
      [] c = "H" -> "h"
      [] c = "U" -> "u"
      [] c = "R" -> "r"
      [] c = "L" -> "l"
      [] OTHER -> c

lower(t) == [i \in 1..Len(t) |-> LowerChar(t[i])]

\* a strip that removes one leading whitespace character only
strip_one(t) ==
    LET b == IF Len(t) > 0 /\ IsSpace(t[1]) THEN 2 ELSE 1
        nonsp == {i \in b..Len(t) : ~IsSpace(t[i])}
        last == IF nonsp = {} THEN b - 1 ELSE CHOOSE i \in nonsp : \A j \in nonsp : j <= i
    IN  SubSeq(t, b, last)

\* str.strip(): drop leading and trailing whitespace
strip(t) ==
    LET nonsp == {i \in 1..Len(t) : ~IsSpace(t[i])}
    IN  IF nonsp = {} THEN <<>>
        ELSE SubSeq(t, CHOOSE i \in nonsp : \A j \in nonsp : i <= j,
                       CHOOSE i \in nonsp : \A j \in nonsp : j <= i)

\* last index of the maximal run of non-whitespace (\S) characters starting at i
NonSpaceRunEnd(t, i) ==
    LET stops == {j \in i..Len(t) : IsSpace(t[j])}
    IN  IF stops = {} THEN Len(t)
        ELSE (CHOOSE j \in stops : \A k \in stops : j <= k) - 1

\* last index of the maximal run of whitespace (\s) characters starting at i
SpaceRunEnd(t, i) ==
    LET stops == {j \in i..Len(t) : ~IsSpace(t[j])}
    IN  IF stops = {} THEN Len(t)
        ELSE (CHOOSE j \in stops : \A k \in stops : j <= k) - 1

\* the literal lit followed by \S+ matches at position i
LiteralThenNonSpace(t, i, lit) ==
    /\ i + Len(lit) <= Len(t)
    /\ SubSeq(t, i, i + Len(lit) - 1) = lit
    /\ ~IsSpace(t[i + Len(lit)])

\* a pattern that knows http only
UrlMatchAt_http_only(t, i) == LiteralThenNonSpace(t, i, HTTP)

\* the pattern http\S+|www\S+ matches at position i
UrlMatchAt(t, i) ==
    LiteralThenNonSpace(t, i, HTTP) \/ LiteralThenNonSpace(t, i, WWW)

RECURSIVE SubUrlFrom(_, _)
SubUrlFrom(t, i) ==
    IF i > Len(t) THEN <<>>
    ELSE IF UrlMatchAt(t, i)
         THEN URL_TOKEN \o SubUrlFrom(t, NonSpaceRunEnd(t, i) + 1)
         ELSE <<t[i]>> \o SubUrlFrom(t, i + 1)

\* re.sub(r"http\S+|www\S+", "<URL>", text): leftmost, greedy, non-overlapping
sub_url(t) == SubUrlFrom(t, 1)

RECURSIVE CollapseFrom(_, _)
CollapseFrom(t, i) ==
    IF i > Len(t) THEN <<>>
    ELSE IF IsSpace(t[i])
         THEN <<" ">> \o CollapseFrom(t, SpaceRunEnd(t, i) + 1)
         ELSE <<t[i]>> \o CollapseFrom(t, i + 1)

\* a collapse that only knows the space character
RECURSIVE CollapseSpacesOnlyFrom(_, _)
CollapseSpacesOnlyFrom(t, i) ==
    IF i > Len(t) THEN <<>>
    ELSE IF t[i] = " "
         THEN <<" ">> \o CollapseSpacesOnlyFrom(t,
                  (IF \E j \in i..Len(t) : t[j] # " "
                   THEN CHOOSE j \in i..Len(t) :
                            t[j] # " " /\ \A k \in i..(j - 1) : t[k] = " "
                   ELSE Len(t) + 1))
         ELSE <<t[i]>> \o CollapseSpacesOnlyFrom(t, i + 1)

collapse_spaces_only(t) == CollapseSpacesOnlyFrom(t, 1)

\* re.sub(r"\s+", " ", text)
collapse_whitespace(t) == CollapseFrom(t, 1)

basic_text_normalisation(t) ==
    IF ~IsStr(t) THEN <<>>
    ELSE collapse_whitespace(sub_url(strip(lower(t))))

-----------------------------------------------------------------------------
(* Normaliser harness: basic_text_normalisation applied once and twice     *)

StringsUpTo(n) == UNION {[1..k -> Alphabet] : k \in 0..n}

PipelineIdle ==
    /\ dataset = [s \in {"train", "validation", "test"} |-> <<>>]
    /\ mapped = [s \in {"train", "validation", "test"} |-> <<>>]
    /\ processed_dataset = <<>>
    /\ num_samples = 0
    /\ report = <<>>
    /\ pc = "off"

InitNorm ==
    /\ text \in StringsUpTo(MaxLen) \cup {None}
    /\ out1 = <<>>
    /\ out2 = <<>>
    /\ npc = "input"
    /\ PipelineIdle

NormaliseOnce ==
    /\ npc = "input"
    /\ out1' = basic_text_normalisation(text)
    /\ npc' = "once"
    /\ UNCHANGED <<text, out2, dataset, mapped, processed_dataset, num_samples, report, pc>>

NormaliseAgain ==
    /\ npc = "once"
    /\ out2' = basic_text_normalisation(out1)
    /\ npc' = "twice"
    /\ UNCHANGED <<text, out1, dataset, mapped, processed_dataset, num_samples, report, pc>>

NextNorm == NormaliseOnce \/ NormaliseAgain

SpecNorm == InitNorm /\ [][NextNorm]_vars

-----------------------------------------------------------------------------
(* Properties of basic_text_normalisation (specification SpecNorm)         *)

\* "http" or "www" starts at i and is immediately followed by a non-whitespace character
RawUrlAt(t, i) ==
    \/ /\ i + 4 <= Len(t)
       /\ t[i] = "h" /\ t[i + 1] = "t" /\ t[i + 2] = "t" /\ t[i + 3] = "p"
       /\ t[i + 4] \notin Whitespace
    \/ /\ i + 3 <= Len(t)
       /\ t[i] = "w" /\ t[i + 1] = "w" /\ t[i + 2] = "w"
       /\ t[i + 3] \notin Whitespace

HasRawUrl(t) == \E i \in 1..Len(t) : RawUrlAt(t, i)

\* the whitespace-delimited tokens of t (by start index) that contain a URL
UrlTokenStarts(t) ==
    {i \in 1..Len(t) :
        /\ t[i] \notin Whitespace
        /\ (i = 1 \/ t[i - 1] \in Whitespace)
        /\ \E j \in i..Len(t) :
              RawUrlAt(t, j) /\ \A k \in i..j : t[k] \notin Whitespace}

PlaceholderStarts(t) ==
    {i \in 1..Len(t) : i + 4 <= Len(t) /\ SubSeq(t, i, i + 4) = URL_TOKEN}

\* C1 (as stated): normalising a normalised string changes nothing, for
\* every input, inputs with a URL token included.
C1_Idempotent == npc = "twice" => out2 = out1

\* C1 (amended): normalisation is idempotent on every input without a URL
\* token; on any input the second pass yields the first result lowercased,
\* that is, with each placeholder <URL> turned into <url>.
C1_IdempotentWithoutUrl ==
    npc = "twice" =>
        /\ out2 = lower(out1)
        /\ (IsStr(text) /\ ~HasRawUrl(lower(text))) => out2 = out1
        /\ ~IsStr(text) => out2 = out1

C1_Witness ==
    /\ npc = "twice"
    /\ IsStr(text)
    /\ ~HasRawUrl(lower(text))
    /\ out1 # text
    /\ Len(out1) >= 3
    /\ out2 = out1

\* C7: the normalised string has one placeholder <URL> per URL token of the
\* input and no "http" or "www" immediately followed by a non-whitespace
\* character.
C7_NoRawUrlRemains ==
    npc \in {"once", "twice"} =>
        /\ ~HasRawUrl(out1)
        /\ IsStr(text) =>
              Cardinality(PlaceholderStarts(out1)) = Cardinality(UrlTokenStarts(lower(text)))

C7_Witness ==
    /\ npc = "once"
    /\ IsStr(text)
    /\ HasRawUrl(lower(text))
    /\ Len(text) = 5
    /\ text[1] = "t"
    /\ out1 = <<"t">> \o URL_TOKEN

\* C8: the normalised string has no two consecutive spaces, no whitespace
\* character other than the space, and no leading or trailing whitespace.
C8_WhitespaceNormalised ==
    npc \in {"once", "twice"} =>
        /\ \A i \in 1..Len(out1) : out1[i] \in Whitespace => out1[i] = " "
        /\ \A i \in 1..(Len(out1) - 1) : ~(out1[i] = " " /\ out1[i + 1] = " ")
        /\ Len(out1) > 0 => (out1[1] \notin Whitespace /\ out1[Len(out1)] \notin Whitespace)

C8_Witness ==
    /\ npc = "once"
    /\ IsStr(text)
    /\ Len(text) = 5
    /\ text[1] = Tab
    /\ text[3] = " " /\ text[4] = Tab
    /\ out1 = <<"w", " ", "h">>

-----------------------------------------------------------------------------
(* The pipeline of main(): load, apply_preprocessing, validate_dataset     *)

\* DatasetDict key order, as built by load_fig_loneliness
SplitOrder == <<"train", "validation", "test">>
Splits == {SplitOrder[k] : k \in 1..3}

\* slice bound of the sample printout, text[:200]
SampleWidth == 200

\* values of the text column: None, whitespace only, a URL with irregular spacing
Texts ==
    {None,
     <<" ">>,
     <<"W", "w", "w", "h", " ", Tab, "h">>}

\* values of the lonely column: one-hot pairs, a pair that is neither
\* complementary nor binary, and a vector too short to index at [1]
Lonelys == {<<0, 1>>, <<1, 0>>, <<2, 2>>, <<1>>}

\* an example as loaded: text, lonely, idx, unique_id; lonely may be missing
Example(t, l, withLonely, i) ==
    IF withLonely
    THEN [c \in {"text", "lonely", "idx", "unique_id"} |->
            CASE c = "text" -> t [] c = "lonely" -> l [] OTHER -> i]
    ELSE [c \in {"text", "idx", "unique_id"} |->
            CASE c = "text" -> t [] OTHER -> i]

Cells == Splits \X Texts \X Lonelys \X BOOLEAN

SplitIndex(s) == CHOOSE k \in 1..3 : SplitOrder[k] = s

\* the records of a flat listing that belong to split s, in listing order
RECURSIVE SplitOf(_, _, _)
SplitOf(flat, s, k) ==
    IF k > Len(flat) THEN <<>>
    ELSE IF flat[k][1] = s
         THEN <<Example(flat[k][2], flat[k][3], flat[k][4], k)>> \o SplitOf(flat, s, k + 1)
         ELSE SplitOf(flat, s, k + 1)

\* the datasets load_fig_loneliness can return, at most MaxRecords records in all
Datasets ==
    {[s \in Splits |-> SplitOf(flat, s, 1)] :
        flat \in {f \in UNION {[1..n -> Cells] : n \in 0..MaxRecords} :
                    /\ \A k \in 1..(Len(f) - 1) : SplitIndex(f[k][1]) <= SplitIndex(f[k + 1][1])
                    /\ \A k \in 1..Len(f) : (~f[k][4]) => f[k][3] = <<1>>}}

KeyError == [raised |-> "KeyError"]
IndexError == [raised |-> "IndexError"]
Raised(r) == "raised" \in DOMAIN r

Augment(example, clean, label) ==
    [c \in DOMAIN example \cup {"text_clean", "label"} |->
        CASE c = "text_clean" -> clean
          [] c = "label" -> label
          [] OTHER -> example[c]]

\* process that takes the first element of the lonely vector
process_first_element(example) ==
    IF "lonely" \notin DOMAIN example THEN KeyError
    ELSE IF Len(example["lonely"]) < 2 THEN IndexError
    ELSE Augment(example, basic_text_normalisation(example["text"]), example["lonely"][1])

\* process that overwrites the original text with the cleaned text
process_overwrites_text(example) ==
    IF "lonely" \notin DOMAIN example THEN KeyError
    ELSE IF Len(example["lonely"]) < 2 THEN IndexError
    ELSE [Augment(example, basic_text_normalisation(example["text"]), example["lonely"][2])
            EXCEPT !["text"] = basic_text_normalisation(example["text"])]

\* process that defaults the label to 0 when lonely cannot be indexed
process_defaults_label(example) ==
    IF "lonely" \notin DOMAIN example
    THEN Augment(example, basic_text_normalisation(example["text"]), 0)
    ELSE IF Len(example["lonely"]) < 2
    THEN Augment(example, basic_text_normalisation(example["text"]), 0)
    ELSE Augment(example, basic_text_normalisation(example["text"]), example["lonely"][2])

\* apply_preprocessing.process: the augmented example, or the exception raised
\* by example["lonely"] (KeyError) or by [1] (IndexError; Python index 1 is
\* element 2 here)
process(example) ==
    IF "lonely" \notin DOMAIN example THEN KeyError
    ELSE IF Len(example["lonely"]) < 2 THEN IndexError
    ELSE Augment(example, basic_text_normalisation(example["text"]), example["lonely"][2])

\* remove_columns that drops idx only
remove_idx_only(d, columns) ==
    [s \in DOMAIN d |->
        [i \in 1..Len(d[s]) |->
            [c \in DOMAIN d[s][i] \ {"idx"} |-> d[s][i][c]]]]

\* DatasetDict.remove_columns
remove_columns(d, columns) ==
    [s \in DOMAIN d |->
        [i \in 1..Len(d[s]) |->
            [c \in DOMAIN d[s][i] \ columns |-> d[s][i][c]]]]

\* dataset.map visits the splits in key order and each split front to back
MapPending == {k \in 1..3 : Len(mapped[SplitOrder[k]]) < Len(dataset[SplitOrder[k]])}
MapSplit == SplitOrder[CHOOSE k \in MapPending : \A j \in MapPending : k <= j]
MapExample == dataset[MapSplit][Len(mapped[MapSplit]) + 1]

NormIdle ==
    /\ text = <<>>
    /\ out1 = <<>>
    /\ out2 = <<>>
    /\ npc = "off"

Init ==
    /\ dataset \in Datasets
    /\ mapped = [s \in Splits |-> <<>>]
    /\ processed_dataset = <<>>
    /\ num_samples = 0
    /\ report = <<>>
    /\ pc = "map"
    /\ NormIdle

\* dataset.map(process), one example: process returns the augmented example
ProcessExample ==
    /\ pc = "map"
    /\ MapPending # {}
    /\ ~Raised(process(MapExample))
    /\ mapped' = [mapped EXCEPT ![MapSplit] = Append(@, process(MapExample))]
    /\ UNCHANGED <<text, out1, out2, npc, dataset, processed_dataset, num_samples, report, pc>>

\* dataset.map(process), one example: process raises; the exception leaves
\* apply_preprocessing and main
ProcessRaises ==
    /\ pc = "map"
    /\ MapPending # {}
    /\ Raised(process(MapExample))
    /\ pc' = "preprocess_raised"
    /\ UNCHANGED <<text, out1, out2, npc, dataset, mapped, processed_dataset, num_samples, report>>

\* the map is complete: remove_columns(["idx", "unique_id"]), return, and
\* main binds processed_dataset
RemoveColumnsAndReturn ==
    /\ pc = "map"
    /\ MapPending = {}
    /\ processed_dataset' = <<remove_columns(mapped, {"idx", "unique_id"})>>
    /\ pc' = "processed"
    /\ UNCHANGED <<text, out1, out2, npc, dataset, mapped, num_samples, report>>

\* main calls validate_dataset(processed_dataset, num_samples_to_print = n)
CallValidate ==
    /\ pc = "processed"
    /\ \E n \in 0..MaxSamples : num_samples' = n
    /\ pc' = "validate"
    /\ UNCHANGED <<text, out1, out2, npc, dataset, mapped, processed_dataset, report>>

\* sum(1 for x in data if not x["text_clean"].strip())
EmptyCount(data) ==
    Cardinality({i \in 1..Len(data) : strip(data[i]["text_clean"]) = <<>>})

Labels(data) == [i \in 1..Len(data) |-> data[i]["label"]]

\* a count that sees each distinct label once
label_counts_distinct(labels) ==
    [l \in {labels[i] : i \in 1..Len(labels)} |-> 1]

\* {label: labels.count(label) for label in set(labels)}
label_counts(labels) ==
    [l \in {labels[i] : i \in 1..Len(labels)} |->
        Cardinality({i \in 1..Len(labels) : labels[i] = l})]

\* s[:n]
Slice(s, n) == SubSeq(s, 1, Min(n, Len(s)))

\* range(min(num_samples_to_print, len(data)))
SampleRange(data) == 1..Min(num_samples, Len(data))

\* data[i]["text"][:200] raises TypeError when the text is None
SliceRaises(data, i) == ~IsStr(data[i]["text"])

\* the sample pairs printed for the examples first..last
Samples(data, last) ==
    [i \in 1..last |->
        [original |-> Slice(data[i]["text"], SampleWidth),
         cleaned |-> Slice(data[i]["text_clean"], SampleWidth)]]

ValidateSplitName == SplitOrder[Len(report) + 1]
ValidateData == processed_dataset[1][ValidateSplitName]

Printed(data, last) ==
    [split |-> ValidateSplitName,
     empty_count |-> EmptyCount(data),
     label_counts |-> label_counts(Labels(data)),
     samples |-> Samples(data, last)]

\* one iteration of "for split in dataset.keys()" that prints everything
ValidateSplit ==
    /\ pc = "validate"
    /\ Len(report) < 3
    /\ \A i \in SampleRange(ValidateData) : ~SliceRaises(ValidateData, i)
    /\ report' = Append(report, Printed(ValidateData, Min(num_samples, Len(ValidateData))))
    /\ pc' = IF Len(report) = 2 THEN "validated" ELSE "validate"
    /\ UNCHANGED <<text, out1, out2, npc, dataset, mapped, processed_dataset, num_samples>>

\* one iteration in which a sample's text cannot be sliced: the counts and the
\* samples before it are printed, then TypeError leaves validate_dataset and main
ValidateSplitRaises ==
    /\ pc = "validate"
    /\ Len(report) < 3
    /\ \E i \in SampleRange(ValidateData) :
          /\ SliceRaises(ValidateData, i)
          /\ \A j \in 1..(i - 1) : ~SliceRaises(ValidateData, j)
          /\ report' = Append(report, Printed(ValidateData, i - 1))
    /\ pc' = "validate_raised"
    /\ UNCHANGED <<text, out1, out2, npc, dataset, mapped, processed_dataset, num_samples>>

Next ==
    \/ ProcessExample
    \/ ProcessRaises
    \/ RemoveColumnsAndReturn
    \/ CallValidate
    \/ ValidateSplit
    \/ ValidateSplitRaises

Spec == Init /\ [][Next]_vars

-----------------------------------------------------------------------------
(* Properties of the pipeline (specification Spec)                         *)

Returned == processed_dataset # <<>>
Processed == processed_dataset[1]

\* a record whose lonely field is missing or has fewer than two elements
BadLonely(example) ==
    \/ "lonely" \notin DOMAIN example
    \/ Len(example["lonely"]) < 2

HasBadLonely == \E s \in Splits : \E i \in 1..Len(dataset[s]) : BadLonely(dataset[s][i])

HasNoneText == \E s \in Splits : \E i \in 1..Len(dataset[s]) : ~IsStr(dataset[s][i]["text"])

RECURSIVE SumOver(_, _)
SumOver(f, S) ==
    IF S = {} THEN 0
    ELSE LET x == CHOOSE y \in S : TRUE IN f[x] + SumOver(f, S \ {x})

\* C2 (as stated): validate_dataset never raises on a dataset returned by
\* apply_preprocessing, whatever the sample count and whatever the texts.
C2_ValidatorNeverRaises == pc # "validate_raised"

\* C3: the processed dataset has, split by split, as many records as the
\* input, and record i carries the text and lonely of input record i and the
\* normalisation of that text as text_clean.
C3_CountAndOrderPreserved ==
    Returned =>
        \A s \in Splits :
            /\ Len(Processed[s]) = Len(dataset[s])
            /\ \A i \in 1..Len(dataset[s]) :
                  /\ Processed[s][i]["text"] = dataset[s][i]["text"]
                  /\ Processed[s][i]["lonely"] = dataset[s][i]["lonely"]
                  /\ Processed[s][i]["text_clean"] =
                        basic_text_normalisation(dataset[s][i]["text"])

C3_Witness ==
    /\ Returned
    /\ Len(dataset["validation"]) = 2
    /\ dataset["validation"][1]["text"] = None
    /\ dataset["validation"][2]["text"] # None
    /\ dataset["validation"][1]["lonely"] # dataset["validation"][2]["lonely"]
    /\ Len(Processed["validation"]) = 2

\* C4: every record of the processed dataset has text_clean, label, text and
\* lonely, has neither idx nor unique_id, and all records of all three
\* splits have the same columns.
C4_ColumnsAfterProcessing ==
    Returned =>
        /\ DOMAIN Processed = Splits
        /\ \A s \in Splits : \A i \in 1..Len(Processed[s]) :
              /\ {"text_clean", "label", "text", "lonely"} \subseteq DOMAIN Processed[s][i]
              /\ "idx" \notin DOMAIN Processed[s][i]
              /\ "unique_id" \notin DOMAIN Processed[s][i]
        /\ \A s \in Splits, r \in Splits :
              \A i \in 1..Len(Processed[s]), j \in 1..Len(Processed[r]) :
                  DOMAIN Processed[s][i] = DOMAIN Processed[r][j]

C4_Witness ==
    /\ Returned
    /\ Len(Processed["train"]) = 1
    /\ Len(Processed["test"]) = 1
    /\ "idx" \in DOMAIN dataset["train"][1]
    /\ "unique_id" \in DOMAIN dataset["test"][1]

\* C5: the label of every processed record is the second element of its
\* lonely vector, whatever the first element is and whether or not the two
\* are binary or complementary.
C5_LabelIsSecondElement ==
    Returned =>
        \A s \in Splits : \A i \in 1..Len(dataset[s]) :
            Processed[s][i]["label"] = dataset[s][i]["lonely"][2]

C5_Witness ==
    /\ Returned
    /\ Len(dataset["train"]) = 2
    /\ dataset["train"][1]["lonely"] = <<2, 2>>
    /\ dataset["train"][2]["lonely"] = <<0, 1>>
    /\ Processed["train"][1]["label"] = 2
    /\ Processed["train"][2]["label"] = 1

\* C6: when some record lacks lonely or has a lonely vector shorter than two,
\* apply_preprocessing cannot complete its map, ends by raising, main never
\* receives a dataset and validate_dataset never starts.
C6_BadLonelyAborts ==
    HasBadLonely =>
        /\ pc \in {"map", "preprocess_raised"}
        /\ pc = "map" => MapPending # {}
        /\ ~Returned
        /\ report = <<>>

C6_Witness ==
    /\ pc = "preprocess_raised"
    /\ Len(mapped["train"]) = 1
    /\ Len(dataset["validation"]) = 1
    /\ "lonely" \notin DOMAIN dataset["validation"][1]
    /\ ~Returned

\* C9: every label distribution printed by validate_dataset maps exactly the
\* labels present in its split to their number of occurrences in the whole
\* split, the counts add up to the split's size, and a completed validation
\* has printed one distribution per split, in key order.
C9_LabelDistribution ==
    /\ \A k \in 1..Len(report) :
          LET data == Processed[report[k].split]
              dist == report[k].label_counts
          IN  /\ report[k].split = SplitOrder[k]
              /\ DOMAIN dist = {data[i]["label"] : i \in 1..Len(data)}
              /\ \A l \in DOMAIN dist :
                    dist[l] = Cardinality({i \in 1..Len(data) : data[i]["label"] = l})
              /\ SumOver(dist, DOMAIN dist) = Len(data)
    /\ pc = "validated" => Len(report) = 3

C9_Witness ==
    /\ pc = "validated"
    /\ Len(Processed["test"]) = 2
    /\ report[3].label_counts = [l \in {1} |-> 2]

\* C10 (as stated): for every split it reports on, validate_dataset emits
\* exactly min(sample_count, split_size) sample pairs, those of the first
\* records in order, each the record's text with the same record's text_clean.
C10_SamplesEmitted ==
    \A k \in 1..Len(report) :
        LET data == Processed[report[k].split]
            n == Min(num_samples, Len(data))
        IN  /\ Len(report[k].samples) = n
            /\ \A i \in 1..n :
                  /\ report[k].samples[i].original = data[i]["text"]
                  /\ report[k].samples[i].cleaned = data[i]["text_clean"]

\* With string texts only, the sample loop never raises and the statement
\* above holds of every split reported.
SamplesEmittedForStringTexts == ~HasNoneText => C10_SamplesEmitted

====
